---- MODULE Spec2Model ----
(***************************************************************************)
(* discord-ext-slash: the command / check resolution engine of             *)
(* discord/ext/slash/command.py (Command.can_run, Command.invoke_parents,  *)
(* Command.invoke), the ComponentCallback use budget, and the permission   *)
(* overrides of a Command.                                                 *)
(*                                                                         *)
(* Python values are modelled as strings ("True", "False", "None", "0"),   *)
(* an Optional[x] as the empty sequence (None) or <<x>>.                   *)
(***************************************************************************)
EXTENDS Integers, Sequences, FiniteSets, TLC

\* Deepest nesting of the command tree that is explored (root group = 1).
MaxDepth == 3
\* Most bot-global checks registered in ctx.client._checks.
MaxGlobalChecks == 1
\* Largest max_uses a ComponentCallback is registered with.
MaxUses == 2
\* Most component events delivered in one behaviour.
MaxEvents == 4
\* Most invocations of the callback that are in flight together.
MaxTasks == 2
\* Most permission overrides stored on the command.
MaxPerms == 2
\* Most parameters in the signature of a handler given to Command().
MaxParams == 3

VARIABLES
    nodes,        \* the constructed Command / Group objects
    name,         \* Command.name
    parent,       \* Command.parent, <<>> for None
    cog,          \* Command.cog, "None" for None
    check,        \* BaseCallback._check of each node: which function it holds
    cogHasCheck,  \* cog -> whether hasattr(cog, 'cog_check')
    nGlobal,      \* len(ctx.client._checks)
    pc,           \* where the running Command.invoke is
    leaf,         \* the command whose invoke is running, <<>> when none
    queue,        \* can_run: the local list `parents` after line 326
    evald,        \* the checks called so far, in call order
    lastRet,      \* what the check that completed last returned
    hooks,        \* invoke_parents: the local list `parents` after line 341
    invoked,      \* the handlers (coro) called so far, in call order
    hookRets,     \* what the ancestor hooks that completed returned
    err           \* the exception that left invoke, <<>> when none

cmdVars == <<nodes, name, parent, cog, check, cogHasCheck, nGlobal, pc, leaf,
             queue, evald, lastRet, hooks, invoked, hookRets, err>>

VARIABLES
    comp_callbacks, \* bot.comp_callbacks, the active set
    max_uses,       \* ComponentCallback.max_uses, <<>> for None
    n0,             \* max_uses as it was at registration
    cbCheck,        \* ComponentCallback._check: which function it holds
    tpc,            \* where each running ComponentCallback.invoke is
    events,         \* component events offered to the callback so far
    passes,         \* invocations whose check passed
    denials,        \* invocations whose check returned False
    handlerCalls,   \* calls of the callback's handler (coro)
    dispatched,     \* 'component_callback_deregister' events dispatched
    cbLastRet,      \* what the callback's check returned last
    cbErr           \* type of the exception that left invoke last, "" if none

compVars == <<comp_callbacks, max_uses, n0, cbCheck, tpc, events, passes,
              denials, handlerCalls, dispatched, cbLastRet, cbErr>>

VARIABLES
    permissions,  \* Command.permissions: scope -> ordered dict
    out,          \* <<[guild_id, ret]>> of the last perms_dict call
    permErr       \* whether the last add_perm raised ValueError

permVars == <<permissions, out, permErr>>

VARIABLES
    coro,         \* the handler given to Command(): its docstring, its signature
    heap,         \* the Option objects that exist, an object being its index
    made          \* <<>> before Command.__init__ ran, then <<its outcome>>

ctorVars == <<coro, heap, made>>

vars == <<cmdVars, compVars, permVars, ctorVars>>

Cogs == {"A", "B"}

\* What a user-written predicate or handler can return.
PyValues == {"True", "False", "None", "0"}

\* The three ways BaseCallback._check gets its value.
CheckKinds == {"default", "sync", "async"}

Reverse(s) == [i \in 1..Len(s) |-> s[Len(s) + 1 - i]]

NodeName(n) ==
    IF n = 1 THEN "say" ELSE IF n = 2 THEN "sub" ELSE IF n = 3 THEN "repeat" ELSE "more"

-----------------------------------------------------------------------------
(* BaseCallback.check *)

\* check(coro): a coroutine function is stored as it is, anything else is
\* stored wrapped in _async_check(ctx).
check_(coroIsAsync) == IF coroIsAsync THEN "async" ELSE "sync"

\* `not await check(ctx)`: every falsy value denies
IsFalsy(r) == r \in {"False", "None", "0"}

\* `await check(ctx) is False`, lines 328 and 481
IsFalse(r) == r = "False"

\* the parent's own name in place of the parent's qualified name
qualname_parent_name(n) ==
    IF parent[n] = <<>> THEN name[n]
    ELSE name[parent[n][1]] \o " " \o name[n]

(* Command.qualname *)
RECURSIVE qualname(_)
qualname(n) ==
    IF parent[n] = <<>> THEN name[n]
    ELSE qualname(parent[n][1]) \o " " \o name[n]

-----------------------------------------------------------------------------
(* Command.can_run, lines 311-326: the list of checks, in evaluation order *)

\* What a user-written coroutine can do when awaited: return a value or raise.
UserOutcomes == PyValues \cup {"Exception"}
Errors == {"TypeError", "Exception"}

\* One entry of the local list `parents`: a node's _check (c is the cog that
\* partial() binds in front of ctx, "None" when called with ctx alone), a
\* cog's cog_check, or the i-th element of ctx.client._checks.
NodeCheck(n, boundCog) == [src |-> "node", n |-> n, c |-> boundCog, kind |-> check[n]]
CogCheck(c) == [src |-> "cog", n |-> 0, c |-> c, kind |-> "async"]
GlobalCheck(i) == [src |-> "global", n |-> i, c |-> "None", kind |-> "async"]

Range(s) == {s[i] : i \in 1..Len(s)}

\* the while loop, lines 313-322: `parents`, nearest ancestor first
RECURSIVE WalkChecks(_)
WalkChecks(p) ==
    IF p = <<>> THEN <<>>
    ELSE <<NodeCheck(p[1], cog[p[1]])>> \o WalkChecks(parent[p[1]])

\* the while loop, lines 313-322: `cogs`, each cog_check once
RECURSIVE WalkCogs(_, _)
WalkCogs(p, cogs) ==
    IF p = <<>> THEN cogs
    ELSE LET c == cog[p[1]]
             add == /\ c # "None"
                    /\ cogHasCheck[c]
                    /\ CogCheck(c) \notin Range(cogs)
         IN WalkCogs(parent[p[1]], IF add THEN Append(cogs, CogCheck(c)) ELSE cogs)

\* ctx.client._checks
ClientChecks == [i \in 1..nGlobal |-> GlobalCheck(i)]

\* can_run without line 325: the list is never turned root first.
can_run_parents_unreversed(l) ==
    Append(WalkChecks(parent[l]) \o WalkCogs(parent[l], <<>>) \o ClientChecks,
           NodeCheck(l, "None"))

can_run_parents(l) ==
    Append(Reverse(WalkChecks(parent[l]) \o WalkCogs(parent[l], <<>>) \o ClientChecks),
           NodeCheck(l, "None"))

\* `await check(ctx)`, line 328: what calling one entry can produce.
\* _default_check and the _async_check wrapper take ctx alone, so calling
\* them through partial(parent._check, parent.cog) is a TypeError.
CallCheck(e) ==
    IF e.src = "node" /\ e.kind = "default"
    THEN IF e.c # "None" THEN {"TypeError"} ELSE {"True"}
    ELSE IF e.src = "node" /\ e.kind = "sync" /\ e.c # "None"
    THEN {"TypeError"}
    ELSE UserOutcomes

(* Command.invoke_parents, lines 333-341: the ancestors' handlers *)
HandlerCall(n) == [n |-> n, c |-> cog[n]]

RECURSIVE WalkHooks(_)
WalkHooks(p) ==
    IF p = <<>> THEN <<>>
    ELSE <<HandlerCall(p[1])>> \o WalkHooks(parent[p[1]])

\* invoke_parents without line 341: the nearest ancestor is called first.
invoke_parents_unreversed(l) == WalkHooks(parent[l])

invoke_parents_list(l) == Reverse(WalkHooks(parent[l]))

\* What an ancestor hook returns (demo_bot.py `say`: False, or nothing).
HookValues == {"None", "False"}

\* the message built from self.name instead of self.qualname
CheckFailure_name(l) ==
    [type |-> "CheckFailure",
     msg |-> "The check functions for " \o name[l] \o " failed."]

\* lines 298-299
CheckFailure(l) ==
    [type |-> "CheckFailure",
     msg |-> "The check functions for " \o qualname(l) \o " failed."]

-----------------------------------------------------------------------------
\* No command has been constructed.
NoCommands ==
    /\ nodes = {}
    /\ name = <<>>
    /\ parent = <<>>
    /\ cog = <<>>
    /\ check = <<>>
    /\ cogHasCheck = [c \in Cogs |-> FALSE]
    /\ nGlobal = 0
    /\ pc = "idle"
    /\ leaf = <<>>
    /\ queue = <<>>
    /\ evald = <<>>
    /\ lastRet = <<>>
    /\ hooks = <<>>
    /\ invoked = <<>>
    /\ hookRets = <<>>
    /\ err = <<>>

\* No component callback has been registered.
NoCallbacks ==
    /\ comp_callbacks = {}
    /\ max_uses = <<>>
    /\ n0 = <<>>
    /\ cbCheck = "default"
    /\ tpc = [t \in 1..MaxTasks |-> "idle"]
    /\ events = 0
    /\ passes = 0
    /\ denials = 0
    /\ handlerCalls = 0
    /\ dispatched = 0
    /\ cbLastRet = <<>>
    /\ cbErr = ""

\* Command.__init__, line 155: self.permissions = {}
NoPermissions ==
    /\ permissions = <<>>
    /\ out = <<>>
    /\ permErr = FALSE

\* No Command() is being constructed from a handler.
NoConstruction ==
    /\ coro = [doc |-> FALSE, params |-> <<>>]
    /\ heap = <<>>
    /\ made = <<>>

ChainParent(n) == IF n = 1 THEN <<>> ELSE <<n - 1>>

\* The two cogs are interchangeable: of two trees that differ only by
\* swapping them, the one whose first cog is "A" is explored.
FirstCogIsA(f) ==
    \A n \in DOMAIN f : f[n] = "B" => \E m \in 1..(n - 1) : f[m] = "A"

\* A chain of groups of some depth, the deepest node being the command.
InitCmd ==
    /\ nodes \in {1..d : d \in 1..MaxDepth}
    /\ name = [n \in nodes |-> NodeName(n)]
    /\ parent = [n \in nodes |-> ChainParent(n)]
    /\ cog \in {f \in [nodes -> Cogs \cup {"None"}] : FirstCogIsA(f)}
    /\ check = [n \in nodes |-> "default"]
    /\ cogHasCheck \in [Cogs -> BOOLEAN]
    /\ nGlobal \in 0..MaxGlobalChecks
    /\ pc = "idle"
    /\ leaf = <<>>
    /\ queue = <<>>
    /\ evald = <<>>
    /\ lastRet = <<>>
    /\ hooks = <<>>
    /\ invoked = <<>>
    /\ hookRets = <<>>
    /\ err = <<>>
    /\ NoCallbacks
    /\ NoPermissions
    /\ NoConstruction

treeVars == <<nodes, name, parent, cog, cogHasCheck, nGlobal>>

\* @node.check / node.check(coro)
AttachCheck(n, coroIsAsync) ==
    /\ pc = "idle"
    /\ n \in nodes
    /\ check' = [check EXCEPT ![n] = check_(coroIsAsync)]
    /\ UNCHANGED <<treeVars, pc, leaf, queue, evald, lastRet, hooks, invoked,
                   hookRets, err>>
    /\ UNCHANGED <<compVars, permVars, ctorVars>>

\* An interaction resolves to a command, never to a group that has
\* subcommands.
IsLeaf(l) == l \in nodes /\ \A n \in nodes : parent[n] # <<l>>

\* Command.invoke up to the first await: can_run builds its list and calls
\* the first check.
Invoke(l) ==
    /\ pc = "idle"
    /\ IsLeaf(l)
    /\ leaf' = <<l>>
    /\ queue' = can_run_parents(l)
    /\ evald' = <<queue'[1]>>
    /\ pc' = "check"
    /\ UNCHANGED <<treeVars, check, lastRet, hooks, invoked, hookRets, err>>
    /\ UNCHANGED <<compVars, permVars, ctorVars>>

\* can_run passed: invoke_parents builds its list and calls the first hook,
\* or the leaf handler when there is none.
StartHandlers(l) ==
    /\ hooks' = invoke_parents_list(l)
    /\ IF hooks' # <<>>
       THEN invoked' = <<hooks'[1]>> /\ pc' = "hook"
       ELSE invoked' = <<HandlerCall(l)>> /\ pc' = "leaf"
    /\ UNCHANGED <<evald, err>>

\* The awaited check completes (lines 327-330 and 297-304).
CheckDone ==
    /\ pc = "check"
    /\ LET i == Len(evald)
           l == leaf[1]
       IN \E r \in CallCheck(queue[i]) :
            /\ lastRet' = <<r>>
            /\ IF r \in Errors
               THEN /\ pc' = "failed"
                    /\ err' = <<[type |-> r, msg |-> ""]>>
                    /\ UNCHANGED <<evald, hooks, invoked>>
               ELSE IF IsFalse(r)
               THEN /\ pc' = "failed"
                    /\ err' = <<CheckFailure(l)>>
                    /\ UNCHANGED <<evald, hooks, invoked>>
               ELSE IF i < Len(queue)
               THEN /\ evald' = Append(evald, queue[i + 1])
                    /\ UNCHANGED <<pc, hooks, invoked, err>>
               ELSE StartHandlers(l)
    /\ UNCHANGED <<treeVars, check, leaf, queue, hookRets>>
    /\ UNCHANGED <<compVars, permVars, ctorVars>>

\* invoke with the hooks wrapped: what a hook raises leaves as CheckFailure
HookDone_as_denial ==
    /\ pc = "hook"
    /\ LET j == Len(invoked)
       IN \E r \in HookValues \cup {"Exception"} :
            IF r \in Errors
            THEN /\ pc' = "failed"
                 /\ err' = <<CheckFailure(leaf[1])>>
                 /\ UNCHANGED <<invoked, hookRets>>
            ELSE /\ hookRets' = Append(hookRets, r)
                 /\ IF j < Len(hooks)
                    THEN invoked' = Append(invoked, hooks[j + 1]) /\ pc' = "hook"
                    ELSE invoked' = Append(invoked, HandlerCall(leaf[1])) /\ pc' = "leaf"
                 /\ UNCHANGED err
    /\ UNCHANGED <<treeVars, check, leaf, queue, evald, lastRet, hooks>>
    /\ UNCHANGED <<compVars, permVars, ctorVars>>

\* The awaited ancestor hook completes (lines 342-343, then 305-308).
HookDone ==
    /\ pc = "hook"
    /\ LET j == Len(invoked)
       IN \E r \in HookValues \cup {"Exception"} :
            IF r \in Errors
            THEN /\ pc' = "failed"
                 /\ err' = <<[type |-> r, msg |-> ""]>>
                 /\ UNCHANGED <<invoked, hookRets>>
            ELSE /\ hookRets' = Append(hookRets, r)
                 /\ IF j < Len(hooks)
                    THEN invoked' = Append(invoked, hooks[j + 1]) /\ pc' = "hook"
                    ELSE invoked' = Append(invoked, HandlerCall(leaf[1])) /\ pc' = "leaf"
                 /\ UNCHANGED err
    /\ UNCHANGED <<treeVars, check, leaf, queue, evald, lastRet, hooks>>
    /\ UNCHANGED <<compVars, permVars, ctorVars>>

\* The awaited leaf handler completes (lines 305-308).
LeafDone ==
    /\ pc = "leaf"
    /\ \E r \in {"None", "Exception"} :
         IF r \in Errors
         THEN pc' = "failed" /\ err' = <<[type |-> r, msg |-> ""]>>
         ELSE pc' = "done" /\ UNCHANGED err
    /\ UNCHANGED <<treeVars, check, leaf, queue, evald, lastRet, hooks, invoked,
                   hookRets>>
    /\ UNCHANGED <<compVars, permVars, ctorVars>>

\* invoke has returned or raised; the next interaction can be resolved.
Return ==
    /\ pc \in {"done", "failed"}
    /\ pc' = "idle"
    /\ leaf' = <<>>
    /\ queue' = <<>>
    /\ evald' = <<>>
    /\ lastRet' = <<>>
    /\ hooks' = <<>>
    /\ invoked' = <<>>
    /\ hookRets' = <<>>
    /\ err' = <<>>
    /\ UNCHANGED <<treeVars, check>>
    /\ UNCHANGED <<compVars, permVars, ctorVars>>

NextCmd ==
    \/ \E n \in 1..MaxDepth, a \in BOOLEAN : AttachCheck(n, a)
    \/ \E l \in 1..MaxDepth : Invoke(l)
    \/ CheckDone
    \/ HookDone
    \/ LeafDone
    \/ Return

-----------------------------------------------------------------------------
(* ComponentCallback *)

InitComp ==
    /\ NoCommands
    /\ NoPermissions
    /\ NoConstruction
    /\ comp_callbacks = {"cb"}
    /\ max_uses \in {<<>>} \cup {<<n>> : n \in 0..MaxUses}
    /\ n0 = max_uses
    /\ cbCheck = "default"
    /\ tpc = [t \in 1..MaxTasks |-> "idle"]
    /\ events = 0
    /\ passes = 0
    /\ denials = 0
    /\ handlerCalls = 0
    /\ dispatched = 0
    /\ cbLastRet = <<>>
    /\ cbErr = ""

\* The registry offers a component event to the callbacks of the active set
\* whose matcher accepts it.
Offered == "cb" \in comp_callbacks

\* `await self._check(ctx)`, line 481: always called with ctx alone.
CBCallCheck == IF cbCheck = "default" THEN {"True"} ELSE UserOutcomes

\* `self.max_uses < 0`: one use too many before deregistering
Exhausted_late(m) == m < 0

\* line 490
Exhausted(m) == m <= 0

\* lines 488-489: `self.max_uses -= 1` when max_uses is not None
Decrement(m) == IF m = <<>> THEN <<>> ELSE <<m[1] - 1>>

\* ComponentCallback.deregister, lines 499-500, reached from line 491
MustDeregister(m) == m # <<>> /\ Exhausted(m[1])

\* ComponentCallback.invoke from the result r of the check to the call of
\* the handler (lines 481-495).
AfterCheck(t, r) ==
    /\ cbLastRet' = <<r>>
    /\ IF r \in Errors
       THEN /\ cbErr' = r
            /\ tpc' = [tpc EXCEPT ![t] = "idle"]
            /\ UNCHANGED <<comp_callbacks, max_uses, passes, denials,
                           handlerCalls, dispatched>>
       ELSE IF IsFalse(r)
       THEN /\ cbErr' = "CheckFailure"
            /\ denials' = denials + 1
            /\ tpc' = [tpc EXCEPT ![t] = "idle"]
            /\ UNCHANGED <<comp_callbacks, max_uses, passes, handlerCalls,
                           dispatched>>
       ELSE /\ cbErr' = ""
            /\ passes' = passes + 1
            /\ max_uses' = Decrement(max_uses)
            /\ IF MustDeregister(max_uses')
               THEN /\ comp_callbacks' = comp_callbacks \ {"cb"}
                    /\ dispatched' = dispatched + 1
               ELSE UNCHANGED <<comp_callbacks, dispatched>>
            /\ handlerCalls' = handlerCalls + 1
            /\ tpc' = [tpc EXCEPT ![t] = "handler"]
            /\ UNCHANGED denials

\* @callback.check / callback.check(coro), before the first event
CBAttachCheck(coroIsAsync) ==
    /\ "cb" \in comp_callbacks
    /\ events = 0
    /\ cbCheck' = check_(coroIsAsync)
    /\ UNCHANGED <<comp_callbacks, max_uses, n0, tpc, events, passes, denials,
                   handlerCalls, dispatched, cbLastRet, cbErr>>
    /\ UNCHANGED <<cmdVars, permVars, ctorVars>>

\* A matching event starts ComponentCallback.invoke in task t. Only a check
\* that is a user's coroutine function can suspend; _default_check and the
\* _async_check wrapper complete without yielding to the event loop.
CBInvoke(t) ==
    /\ Offered
    /\ events < MaxEvents
    /\ tpc[t] = "idle"
    /\ events' = events + 1
    /\ IF cbCheck = "async"
       THEN /\ tpc' = [tpc EXCEPT ![t] = "check"]
            /\ UNCHANGED <<comp_callbacks, max_uses, passes, denials,
                           handlerCalls, dispatched, cbLastRet, cbErr>>
       ELSE \E r \in CBCallCheck : AfterCheck(t, r)
    /\ UNCHANGED <<n0, cbCheck>>
    /\ UNCHANGED <<cmdVars, permVars, ctorVars>>

\* Events processed one at a time: the next one is offered when the
\* invocation for the previous one is over.
CBInvokeSerial ==
    /\ \A u \in 1..MaxTasks : tpc[u] = "idle"
    /\ CBInvoke(1)

\* The awaited check of task t completes.
CBCheckDone(t) ==
    /\ tpc[t] = "check"
    /\ \E r \in CBCallCheck : AfterCheck(t, r)
    /\ UNCHANGED <<n0, cbCheck, events>>
    /\ UNCHANGED <<cmdVars, permVars, ctorVars>>

\* The awaited handler of task t completes (lines 492-495).
CBHandlerDone(t) ==
    /\ tpc[t] = "handler"
    /\ \E r \in {"None", "Exception"} :
         cbErr' = IF r \in Errors THEN r ELSE ""
    /\ tpc' = [tpc EXCEPT ![t] = "idle"]
    /\ UNCHANGED <<comp_callbacks, max_uses, n0, cbCheck, events, passes,
                   denials, handlerCalls, dispatched, cbLastRet>>
    /\ UNCHANGED <<cmdVars, permVars, ctorVars>>

NextComp ==
    \/ \E a \in BOOLEAN : CBAttachCheck(a)
    \/ CBInvokeSerial
    \/ \E t \in 1..MaxTasks : CBCheckDone(t)
    \/ \E t \in 1..MaxTasks : CBHandlerDone(t)

NextCompConc ==
    \/ \E a \in BOOLEAN : CBAttachCheck(a)
    \/ \E t \in 1..MaxTasks : CBInvoke(t)
    \/ \E t \in 1..MaxTasks : CBCheckDone(t)
    \/ \E t \in 1..MaxTasks : CBHandlerDone(t)

-----------------------------------------------------------------------------
(* Command.permissions: perms_dict and add_perm *)

\* A Python dict is a sequence of [k, v] items in insertion order, no key
\* twice.
DictKeys(d) == {d[i].k : i \in 1..Len(d)}

DictIndex(d, k) == (CHOOSE i \in 1..Len(d) : d[i].k = k)

\* d[k] = v: the value of a present key is replaced where it stands, a new
\* key goes to the end
DictSet(d, k, v) ==
    IF k \in DictKeys(d)
    THEN [i \in 1..Len(d) |-> IF d[i].k = k THEN [k |-> k, v |-> v] ELSE d[i]]
    ELSE Append(d, [k |-> k, v |-> v])

\* d.update(items)
RECURSIVE DictUpdate(_, _)
DictUpdate(d, items) ==
    IF items = <<>> THEN d
    ELSE DictUpdate(DictSet(d, Head(items).k, Head(items).v), Tail(items))

\* self.permissions.get(scope, {})
PermsGet(perms, scope) == IF scope \in DOMAIN perms THEN perms[scope] ELSE <<>>

\* ApplicationCommandPermissionType.value
TypeValue(type) == IF type = "ROLE" THEN 1 ELSE 2

\* the overlay the wrong way round: the global override wins
perms_final_global_wins(perms, guild_id) ==
    DictUpdate(PermsGet(perms, guild_id), PermsGet(perms, <<>>))

\* perms_dict, lines 228-229: `final`
perms_final(perms, guild_id) ==
    DictUpdate(PermsGet(perms, <<>>), PermsGet(perms, guild_id))

\* perms_dict, lines 226-236: what it returns (self.id is None before the
\* command is registered) and self.permissions as it is afterwards; `final`
\* is a copy, so no stored dict is written.
perms_dict(perms, guild_id) ==
    LET final == perms_final(perms, guild_id)
    IN [ret |-> [id |-> <<>>,
                 permissions |-> [i \in 1..Len(final) |->
                     [id |-> final[i].k[1],
                      type |-> TypeValue(final[i].k[2]),
                      permission |-> final[i].v]]],
        permissions |-> perms]

Guilds == {1, 2}

\* The targets add_perm is called with: a role and a member of guild 1, a
\* guildless user, a bare discord.Object.
Targets ==
    { [kind |-> "Role", id |-> 1, guild |-> <<1>>],
      [kind |-> "Member", id |-> 2, guild |-> <<1>>],
      [kind |-> "User", id |-> 2, guild |-> <<>>],
      [kind |-> "Object", id |-> 1, guild |-> <<>>] }

\* guild_id as passed: left out (the default `...`), None, or a guild id
GuildArgs ==
    {[given |-> FALSE, v |-> <<>>]} \cup
    {[given |-> TRUE, v |-> g] : g \in {<<>>} \cup {<<x>> : x \in Guilds}}

TypeArgs == {"None", "ROLE", "USER"}

\* add_perm, lines 280-287: the type, "ValueError" when it cannot be inferred
InferType(target, type) ==
    IF type # "None" THEN type
    ELSE IF target.kind = "Role" THEN "ROLE"
    ELSE IF target.kind \in {"User", "Member"} THEN "USER"
    ELSE "ValueError"

\* `guild_id=None` as the default: an explicit None is taken for left out
InferGuild_none_default(target, guild_id) ==
    IF guild_id.given /\ guild_id.v # <<>> THEN <<guild_id.v>>
    ELSE IF target.kind \in {"Role", "Member"} THEN <<target.guild>>
    ELSE <<>>

\* add_perm, lines 288-293: <<scope>>, or <<>> when it cannot be inferred
InferGuild(target, guild_id) ==
    IF guild_id.given THEN <<guild_id.v>>
    ELSE IF target.kind \in {"Role", "Member"} THEN <<target.guild>>
    ELSE <<>>

\* line 294: self.permissions.setdefault(guild_id, {})[target.id, type] = perm
SetPerm(perms, scope, key, perm) ==
    [s \in DOMAIN perms \cup {scope} |->
        IF s = scope THEN DictSet(PermsGet(perms, s), key, perm) ELSE perms[s]]

PermCount(perms) ==
    LET RECURSIVE Sum(_)
        Sum(S) == IF S = {} THEN 0
                  ELSE LET s == CHOOSE x \in S : TRUE
                       IN Len(perms[s]) + Sum(S \ {s})
    IN Sum(DOMAIN perms)

InitPerms ==
    /\ NoCommands
    /\ NoCallbacks
    /\ NoConstruction
    /\ permissions = <<>>
    /\ out = <<>>
    /\ permErr = FALSE

add_perm_result(perms, target, perm, guild_id, type) ==
    LET ty == InferType(target, type)
        sc == InferGuild(target, guild_id)
    IN IF ty = "ValueError" \/ sc = <<>>
       THEN [raised |-> TRUE, permissions |-> perms]
       ELSE [raised |-> FALSE,
             permissions |-> SetPerm(perms, sc[1], <<target.id, ty>>, perm)]

add_perm(target, perm, guild_id, type) ==
    /\ LET r == add_perm_result(permissions, target, perm, guild_id, type)
       IN /\ PermCount(r.permissions) <= MaxPerms
          /\ permErr' = r.raised
          /\ permissions' = r.permissions
    /\ out' = <<>>
    /\ UNCHANGED <<cmdVars, compVars, ctorVars>>

PermsDict(guild_id) ==
    /\ LET r == perms_dict(permissions, guild_id)
       IN /\ out' = <<[guild_id |-> guild_id, ret |-> r.ret]>>
          /\ permissions' = r.permissions
    /\ permErr' = FALSE
    /\ UNCHANGED <<cmdVars, compVars, ctorVars>>

NextPerms ==
    \/ \E target \in Targets, perm \in BOOLEAN, guild_id \in GuildArgs,
          type \in TypeArgs : add_perm(target, perm, guild_id, type)
    \/ \E g \in {<<>>} \cup {<<x>> : x \in Guilds} : PermsDict(g)

SpecPerms == InitPerms /\ [][NextPerms]_vars

-----------------------------------------------------------------------------
(* Command.__init__: the signature of the handler *)

\* param.annotation after the string annotations were evaluated: none, a
\* class that is no Context and no ChoiceEnum, a Context class, a
\* ChoiceEnum class, an Option instance.
Annotations == {"empty", "int", "Context", "ChoiceEnum", "Option"}

\* inspect.Parameter: its annotation and whether it has a default
Params == [annotation : Annotations, has_default : BOOLEAN]

\* param.name: the names of a signature are distinct
ParamName(i) == <<"a", "b", "c", "d", "e">>[i]

\* The Option instance that the annotations of the signature share.
Prototype == 1

\* Option(description=..., name=..., required=...) as the module declares it
\* before any command is built.
Prototypes == [name : {<<>>, <<"msg">>}, required : BOOLEAN]

\* Option(description=typ): no name, not required
Option_new == [name |-> <<>>, required |-> FALSE]

\* Option.clone(): a new object with the fields of this one
clone(h, o) == Append(h, h[o])

\* the implicit receiver is looked for in the first position only
ParamStep_first_only(st, i, param) ==
    LET typ == param.annotation
    IN IF /\ typ \notin {"Option", "ChoiceEnum", "Context"}
          /\ ~param.has_default
       THEN IF i = 1
            THEN [st EXCEPT !.found_self_arg = TRUE, !.skipped = Append(@, i)]
            ELSE [st EXCEPT !.raised = "TypeError"]
       ELSE IF typ = "Context"
       THEN [st EXCEPT !.ctx_arg = <<ParamName(i)>>]
       ELSE IF typ \in {"ChoiceEnum", "Option"}
       THEN LET h1  == IF typ = "ChoiceEnum" THEN Append(st.heap, Option_new)
                       ELSE st.heap
                src == IF typ = "ChoiceEnum" THEN Len(h1) ELSE Prototype
                h2  == clone(h1, src)
                c   == Len(h2)
                h3  == IF ~param.has_default
                       THEN [h2 EXCEPT ![c].required = TRUE] ELSE h2
                h4  == IF h3[c].name = <<>>
                       THEN [h3 EXCEPT ![c].name = <<ParamName(i)>>] ELSE h3
            IN [st EXCEPT !.heap = h4,
                          !.options = DictSet(@, ParamName(i), c)]
       ELSE st

\* One turn of the loop over signature(coro).parameters.values(), on the
\* locals and fields st: the i-th parameter.
ParamStep(st, i, param) ==
    LET typ == param.annotation
    IN IF /\ typ \notin {"Option", "ChoiceEnum", "Context"}
          /\ ~param.has_default
       THEN IF ~st.found_self_arg
            THEN [st EXCEPT !.found_self_arg = TRUE, !.skipped = Append(@, i)]
            ELSE [st EXCEPT !.raised = "TypeError"]
       ELSE IF typ = "Context"
       THEN [st EXCEPT !.ctx_arg = <<ParamName(i)>>]
       ELSE IF typ \in {"ChoiceEnum", "Option"}
       THEN LET h1  == IF typ = "ChoiceEnum" THEN Append(st.heap, Option_new)
                       ELSE st.heap
                src == IF typ = "ChoiceEnum" THEN Len(h1) ELSE Prototype
                h2  == clone(h1, src)
                c   == Len(h2)
                h3  == IF ~param.has_default
                       THEN [h2 EXCEPT ![c].required = TRUE] ELSE h2
                h4  == IF h3[c].name = <<>>
                       THEN [h3 EXCEPT ![c].name = <<ParamName(i)>>] ELSE h3
            IN [st EXCEPT !.heap = h4,
                          !.options = DictSet(@, ParamName(i), c)]
       ELSE st

\* The loop: it ends at the first parameter that raises.
RECURSIVE ParamLoop(_, _, _)
ParamLoop(st, params, i) ==
    IF i > Len(params) \/ st.raised # "" THEN st
    ELSE ParamLoop(ParamStep(st, i, params[i]), params, i + 1)

\* Command.__init__(coro): what it raises, the fields it leaves and the
\* Option objects that exist afterwards. skipped lists the positions at
\* which the loop took its `continue`.
Command_init(c, h) ==
    LET st0 == [found_self_arg |-> FALSE, ctx_arg |-> <<>>, options |-> <<>>,
                heap |-> h, raised |-> "", skipped |-> <<>>]
        st  == ParamLoop(st0, c.params, 1)
    IN IF ~c.doc
       THEN [st0 EXCEPT !.raised = "ValueError"]
       ELSE IF st.raised = "" /\ st.ctx_arg = <<>>
       THEN [st EXCEPT !.raised = "ValueError"]
       ELSE st

InitCtor ==
    /\ NoCommands
    /\ NoCallbacks
    /\ NoPermissions
    /\ coro \in [doc : BOOLEAN,
                 params : UNION {[1..n -> Params] : n \in 0..MaxParams}]
    /\ heap \in {<<o>> : o \in Prototypes}
    /\ made = <<>>

\* Command(coro)
Construct ==
    /\ made = <<>>
    /\ LET r == Command_init(coro, heap)
       IN /\ made' = <<[raised |-> r.raised, ctx_arg |-> r.ctx_arg,
                        options |-> r.options, skipped |-> r.skipped]>>
          /\ heap' = r.heap
    /\ UNCHANGED <<coro, cmdVars, compVars, permVars>>

NextCtor == Construct

SpecCtor == InitCtor /\ [][NextCtor]_vars


-----------------------------------------------------------------------------
(* The command tree under mutation: name and parent are plain attributes *)

\* What a node can be renamed to.
Names == {"say", "sub", "repeat"}

\* Following .parent from m comes by a: a is m or one of its ancestors.
RECURSIVE Reaches(_, _)
Reaches(m, a) ==
    \/ m = a
    \/ parent[m] # <<>> /\ Reaches(parent[m][1], a)

\* node.name = s
Rename(n, s) ==
    /\ n \in nodes
    /\ s # name[n]
    /\ name' = [name EXCEPT ![n] = s]
    /\ UNCHANGED <<nodes, parent, cog, cogHasCheck, nGlobal, check, pc, leaf,
                   queue, evald, lastRet, hooks, invoked, hookRets, err>>
    /\ UNCHANGED <<compVars, permVars, ctorVars>>

\* node.parent = p, p being None or a node that is not below this one
Reparent(n, p) ==
    /\ n \in nodes
    /\ p # parent[n]
    /\ p # <<>> => p[1] \in nodes /\ ~Reaches(p[1], n)
    /\ parent' = [parent EXCEPT ![n] = p]
    /\ UNCHANGED <<nodes, name, cog, cogHasCheck, nGlobal, check, pc, leaf,
                   queue, evald, lastRet, hooks, invoked, hookRets, err>>
    /\ UNCHANGED <<compVars, permVars, ctorVars>>

\* A chain of nodes that belong to no cog, with no bot-global check.
InitTree ==
    /\ InitCmd
    /\ \A n \in nodes : cog[n] = "None"
    /\ \A c \in Cogs : ~cogHasCheck[c]
    /\ nGlobal = 0

NextTree ==
    \/ \E n \in 1..MaxDepth, s \in Names : Rename(n, s)
    \/ \E n \in 1..MaxDepth, p \in {<<>>} \cup {<<m>> : m \in 1..MaxDepth} :
          Reparent(n, p)

SpecTree == InitTree /\ [][NextTree]_vars


-----------------------------------------------------------------------------
(* A second task that changes the tree while Command.invoke is suspended *)

\* Awaiting this entry of `parents` can suspend: it is a coroutine function
\* the user wrote. _default_check and the _async_check wrapper never await.
CanSuspend(e) == e.src \in {"cog", "global"} \/ e.kind = "async"

\* invoke is inside can_run, at an await that lets other tasks run
Suspended == pc = "check" /\ CanSuspend(queue[Len(evald)])

\* node.parent = p by another task
ReparentDuring(n, p) == Suspended /\ Reparent(n, p)

\* node.check(coro) by another task
CheckDuring(n, coroIsAsync) ==
    /\ Suspended
    /\ n \in nodes
    /\ check[n] # check_(coroIsAsync)
    /\ check' = [check EXCEPT ![n] = check_(coroIsAsync)]
    /\ UNCHANGED <<treeVars, pc, leaf, queue, evald, lastRet, hooks, invoked,
                   hookRets, err>>
    /\ UNCHANGED <<compVars, permVars, ctorVars>>

NextMut ==
    \/ NextCmd
    \/ \E n \in 1..MaxDepth, p \in {<<>>} \cup {<<m>> : m \in 1..MaxDepth} :
          ReparentDuring(n, p)
    \/ \E n \in 1..MaxDepth, a \in BOOLEAN : CheckDuring(n, a)

SpecMut == InitTree /\ [][NextMut]_vars


-----------------------------------------------------------------------------
\* Interactions resolved one at a time: slash commands and component events.
Init == InitCmd \/ InitComp

Next == NextCmd \/ NextComp

Spec == Init /\ [][Next]_vars

\* Invocations of the component callback interleave at their awaits.
SpecConc == InitComp /\ [][NextCompConc]_vars

-----------------------------------------------------------------------------
(* The command tree as the properties below read it *)

RECURSIVE Depth(_)
Depth(n) == IF parent[n] = <<>> THEN 1 ELSE 1 + Depth(parent[n][1])

RECURSIVE Up(_, _)
Up(n, k) == IF k = 0 THEN n ELSE Up(parent[n][1], k - 1)

\* The chain of n: its root first, n itself last.
ChainOf(n) == [i \in 1..Depth(n) |-> Up(n, Depth(n) - i)]

\* The names of a chain joined by single spaces, from the left.
RECURSIVE Joined(_, _, _)
Joined(chain, i, acc) ==
    IF i > Len(chain) THEN acc
    ELSE Joined(chain, i + 1, acc \o " " \o name[chain[i]])

PathName(n) == Joined(ChainOf(n), 2, name[ChainOf(n)[1]])

Stage(e) == IF e.src = "global" THEN 1 ELSE IF e.src = "cog" THEN 2 ELSE 3

\* The node checks among the checks called so far, in call order.
NodesOf(log) == SelectSeq(log, LAMBDA e : e.src = "node")

ChecksPassed == pc \in {"hook", "leaf", "done"}

-----------------------------------------------------------------------------
\* C1: the checks of one invocation are called in one fixed order: the
\* bot-global checks, then the cog-level checks, then the ancestors' own
\* checks root first, then the leaf's own check; a deeper node's check is
\* never called before a shallower node's, and when all of them passed every
\* global check, every ancestor and the leaf have been called, the leaf last.
C1_CheckOrder ==
    /\ \A i, j \in 1..Len(evald) :
          i < j =>
            /\ Stage(evald[i]) <= Stage(evald[j])
            /\ (evald[i].src = "node" /\ evald[j].src = "node")
                  => Depth(evald[i].n) < Depth(evald[j].n)
    /\ \A i \in 1..Len(evald) :
          evald[i].src = "node" =>
             evald[i].n = ChainOf(leaf[1])[Depth(evald[i].n)]
    /\ ChecksPassed =>
          /\ {e.n : e \in {x \in Range(evald) : x.src = "global"}} = 1..nGlobal
          /\ Len(NodesOf(evald)) = Depth(leaf[1])
          /\ evald[Len(evald)].src = "node"
          /\ evald[Len(evald)].n = leaf[1]

C1_Witness ==
    /\ pc = "done"
    /\ Depth(leaf[1]) >= 3
    /\ \E e \in Range(evald) : e.src = "global"
    /\ \E e \in Range(evald) : e.src = "cog"

\* C2: when the check of the node at depth k returns False, the node checks
\* called are exactly those of depths 1..k, no handler was called, and the
\* CheckFailure raised names the leaf's qualified name.
C2_DenialStopsAtK ==
    (pc = "failed" /\ err[1].type = "CheckFailure") =>
        /\ lastRet = <<"False">>
        /\ invoked = <<>>
        /\ hooks = <<>>
        /\ err[1].msg = "The check functions for " \o PathName(leaf[1]) \o " failed."
        /\ LET d == evald[Len(evald)]
               called == NodesOf(evald)
           IN d.src = "node" =>
                /\ Len(called) = Depth(d.n)
                /\ \A i \in 1..Len(called) : called[i].n = ChainOf(leaf[1])[i]

C2_Witness ==
    /\ pc = "failed"
    /\ err[1].type = "CheckFailure"
    /\ evald[Len(evald)].src = "node"
    /\ Depth(evald[Len(evald)].n) = 2
    /\ Depth(leaf[1]) = 3

\* C3: once the checks passed, the ancestors' handlers are called once each,
\* root first, and the leaf handler once, after all of them completed; a
\* hook that returns a value, False included, is followed by the next call.
C3_HandlerOrder ==
    /\ \A i \in 1..Len(invoked) : invoked[i].n = ChainOf(leaf[1])[i]
    /\ Len(invoked) <= Len(hookRets) + 1
    /\ pc \in {"leaf", "done"} =>
          /\ Len(invoked) = Depth(leaf[1])
          /\ Len(hookRets) = Depth(leaf[1]) - 1

C3_HookValueIgnored ==
    [][Len(hookRets') > Len(hookRets) =>
          /\ pc' \in {"hook", "leaf"}
          /\ Len(invoked') = Len(invoked) + 1]_vars

C3_AncestorsThenLeaf == []C3_HandlerOrder /\ C3_HookValueIgnored

C3_Witness ==
    /\ pc = "done"
    /\ Len(invoked) >= 3
    /\ "False" \in Range(hookRets)

\* C4: in Command.invoke and in ComponentCallback.invoke alike, a check that
\* returns a value denies exactly when that value is False; None, 0 and True
\* pass, whether the predicate was attached as a plain function or as a
\* coroutine function.
C4_CommandStep ==
    (pc = "check" /\ lastRet' # <<>> /\ lastRet'[1] \notin Errors) =>
        /\ (pc' = "failed") = (lastRet'[1] = "False")
        /\ (pc' = "failed") => err'[1].type = "CheckFailure"
        /\ (pc' # "failed") =>
              \/ (pc' = "check" /\ Len(evald') = Len(evald) + 1)
              \/ (pc' \in {"hook", "leaf"} /\ Len(invoked') = 1)

C4_CallbackStep ==
    ( /\ \/ \E t \in 1..MaxTasks : tpc[t] = "check" /\ tpc'[t] # "check"
         \/ events' # events /\ cbCheck # "async"
      /\ cbLastRet'[1] \notin Errors ) =>
        /\ (cbErr' = "CheckFailure") = (cbLastRet'[1] = "False")
        /\ (\E t \in 1..MaxTasks : tpc[t] # "handler" /\ tpc'[t] = "handler")
              = (cbLastRet'[1] # "False")
        /\ (handlerCalls' = handlerCalls + 1) = (cbLastRet'[1] # "False")

C4_OnlyFalseDenies == [][C4_CommandStep /\ C4_CallbackStep]_vars

C4_Witness ==
    /\ pc \in {"hook", "leaf"}
    /\ lastRet = <<"0">>
    /\ check[leaf[1]] = "sync"
    /\ Len(evald) >= 2

\* C5: with no predicate attached to any node, no bot-global check and no
\* cog-level check, the invocation is never refused nor stopped by an error
\* before its handlers run, whatever cogs own the nodes.
C5_DefaultAuthorizes ==
    ( /\ pc = "failed"
      /\ \A n \in nodes : check[n] = "default"
      /\ nGlobal = 0
      /\ \A c \in Cogs : ~cogHasCheck[c] ) => invoked # <<>>

\* C6: the blanket check of every cog that owns the invoked leaf or one of
\* its ancestors has been called exactly once before any handler is called.
OwningCogs(l) == {cog[ChainOf(l)[i]] : i \in 1..Depth(l)} \ {"None"}

C6_CogCheckCoversOwn ==
    invoked # <<>> =>
        \A c \in OwningCogs(leaf[1]) :
            cogHasCheck[c] =>
                Cardinality({i \in 1..Len(evald) : evald[i] = CogCheck(c)}) = 1

\* C7: with max_uses = n >= 1 and events handled one at a time, the callback
\* is in the active set exactly while fewer than n invocations have passed
\* its check; a denied invocation changes neither max_uses nor the active
\* set nor calls the handler; the n-th pass removes the callback and
\* dispatches the deregistration once; no event reaches it afterwards.
C7_Budget ==
    (n0 # <<>> /\ n0[1] >= 1) =>
        /\ ("cb" \in comp_callbacks) = (passes < n0[1])
        /\ max_uses = <<n0[1] - passes>>
        /\ handlerCalls = passes
        /\ dispatched = (IF passes < n0[1] THEN 0 ELSE 1)

C7_Step ==
    (n0 # <<>> /\ n0[1] >= 1) =>
        /\ denials' # denials =>
              UNCHANGED <<max_uses, comp_callbacks, handlerCalls, dispatched>>
        /\ (passes' # passes /\ passes' = n0[1]) =>
              /\ "cb" \in comp_callbacks
              /\ "cb" \notin comp_callbacks'
              /\ dispatched' = dispatched + 1
        /\ "cb" \notin comp_callbacks => events' = events

C7_UseBudget == []C7_Budget /\ [][C7_Step]_vars

C7_Witness ==
    /\ n0 = <<2>>
    /\ passes = 2
    /\ denials >= 1
    /\ "cb" \notin comp_callbacks
    /\ dispatched = 1

\* C8: a callback registered with max_uses = n, n = 0 included, has its
\* handler called at most n times.
C8_AtMostN == n0 # <<>> => handlerCalls <= n0[1]

\* C9: with max_uses = n >= 1 and invocations that interleave at their
\* awaits, the handler is called at most n times, max_uses never goes below
\* zero, and the deregistration is dispatched at most once.
C9_SafeInterleaving ==
    (n0 # <<>> /\ n0[1] >= 1) =>
        /\ handlerCalls <= n0[1]
        /\ max_uses[1] >= 0
        /\ dispatched <= 1

\* C10: perms_dict(g) lists exactly one entry for every key that has a global
\* override or an override of g, carrying g's value when g has one and the
\* global value otherwise, and it leaves the stored overrides as they were.
C10_Merged ==
    out # <<>> =>
        LET g == out[1].guild_id
            list == out[1].ret.permissions
            glob == PermsGet(permissions, <<>>)
            own == PermsGet(permissions, g)
            keys == DictKeys(glob) \cup DictKeys(own)
            Val(k) == IF k \in DictKeys(own) THEN own[DictIndex(own, k)].v
                      ELSE glob[DictIndex(glob, k)].v
        IN /\ Len(list) = Cardinality(keys)
           /\ \A k \in keys : \E i \in 1..Len(list) :
                 list[i] = [id |-> k[1], type |-> TypeValue(k[2]),
                            permission |-> Val(k)]

C10_StoreKept == [][permissions' # permissions => out' = <<>>]_vars

C10_PermsDict == []C10_Merged /\ C10_StoreKept

\* global {A: true}, guild 1 {A: false}: perms_dict(1) says false
C10_Witness ==
    /\ out # <<>>
    /\ out[1].guild_id = <<1>>
    /\ <<>> \in DOMAIN permissions
    /\ <<1>> \in DOMAIN permissions
    /\ \E i \in 1..Len(permissions[<<>>]), j \in 1..Len(permissions[<<1>>]) :
          /\ permissions[<<>>][i].k = permissions[<<1>>][j].k
          /\ permissions[<<>>][i].v = TRUE
          /\ permissions[<<1>>][j].v = FALSE
          /\ \E x \in 1..Len(out[1].ret.permissions) :
                /\ out[1].ret.permissions[x].id = permissions[<<>>][i].k[1]
                /\ out[1].ret.permissions[x].permission = FALSE


\* The documented add_perm: it raises and leaves the permissions mapping as
\* it was when the type is not given and the target is neither a role nor user-like, or
\* when the guild is not given and the target carries none; otherwise it
\* stores perm under (target.id, type) in the given or inferred scope, an
\* explicit None being the global scope, and changes no other entry.
C11_Fails(target, guild_id, type) ==
    \/ type = "None" /\ target.kind \notin {"Role", "User", "Member"}
    \/ ~guild_id.given /\ target.guild = <<>>

C11_Scope(target, guild_id) ==
    IF guild_id.given THEN guild_id.v ELSE target.guild

C11_Type(target, type) ==
    IF type # "None" THEN type
    ELSE IF target.kind = "Role" THEN "ROLE" ELSE "USER"

C11_Call(perms, target, perm, guild_id, type) ==
    LET r == add_perm_result(perms, target, perm, guild_id, type)
    IN IF C11_Fails(target, guild_id, type)
       THEN r.raised /\ r.permissions = perms
       ELSE LET sc == C11_Scope(target, guild_id)
                key == <<target.id, C11_Type(target, type)>>
                new == r.permissions[sc]
                old == PermsGet(perms, sc)
            IN /\ ~r.raised
               /\ DOMAIN r.permissions = DOMAIN perms \cup {sc}
               /\ \A s \in DOMAIN perms : s # sc => r.permissions[s] = perms[s]
               /\ DictKeys(new) = DictKeys(old) \cup {key}
               /\ new[DictIndex(new, key)].v = perm
               /\ \A k \in DictKeys(old) \ {key} :
                     new[DictIndex(new, k)].v = old[DictIndex(old, k)].v

\* C11: in every reachable permissions store, every add_perm call raises and
\* leaves the store as it was when the type or the guild cannot be inferred,
\* and otherwise records exactly one override under the inferred scope and key
C11_AddPerm ==
    \A target \in Targets, perm \in BOOLEAN, guild_id \in GuildArgs,
       type \in TypeArgs :
      C11_Call(permissions, target, perm, guild_id, type)

\* a failed add_perm after overrides were stored, one of them global
C11_Witness ==
    /\ permErr
    /\ <<>> \in DOMAIN permissions
    /\ PermCount(permissions) >= 2

-----------------------------------------------------------------------------
(* Command.__init__ *)

\* the required parameters with no valid annotation, by position
Unannotated(c) ==
    {i \in 1..Len(c.params) :
        /\ c.params[i].annotation \notin {"Option", "ChoiceEnum", "Context"}
        /\ ~c.params[i].has_default}

Min(S) == CHOOSE x \in S : \A y \in S : x <= y

\* C12: a construction whose signature has a second required parameter with
\* no valid annotation fails, with TypeError once the description is there;
\* one that has at most one never fails with TypeError; the first such
\* parameter, whatever its position, is the one position the loop skips and
\* gives no option.
C12_Unannotated ==
    made # <<>> =>
        LET U == Unannotated(coro)
            m == made[1]
        IN /\ Cardinality(U) >= 2 =>
                /\ m.raised # ""
                /\ coro.doc => m.raised = "TypeError" /\ m.skipped = <<Min(U)>>
           /\ Cardinality(U) <= 1 => m.raised # "TypeError"
           /\ m.raised = "" =>
                /\ m.skipped = (IF U = {} THEN <<>> ELSE <<Min(U)>>)
                /\ \A i \in U : ParamName(i) \notin DictKeys(m.options)

\* a third parameter refused after the second one was taken for the receiver
C12_Witness ==
    /\ made # <<>>
    /\ made[1].raised = "TypeError"
    /\ made[1].skipped = <<2>>
    /\ Unannotated(coro) = {2, 3}

\* the parameters annotated with a Context class, by position
ContextParams(c) ==
    {i \in 1..Len(c.params) : c.params[i].annotation = "Context"}

\* C13: a Command that was constructed has exactly one parameter annotated
\* with a Context class, and that one is its context parameter.
C13_OneContext ==
    made # <<>> /\ made[1].raised = "" =>
        /\ Cardinality(ContextParams(coro)) = 1
        /\ \A i \in ContextParams(coro) : made[1].ctx_arg = <<ParamName(i)>>

\* C14: after a construction, the option of every parameter annotated with
\* the Option prototype is another object than the prototype, required
\* exactly when the parameter has no default, named as the prototype when
\* that has a name and as the parameter otherwise, and the prototype is as
\* it was.
C14_Step ==
    made = <<>> /\ made' # <<>> /\ made'[1].raised = "" =>
        /\ heap'[Prototype] = heap[Prototype]
        /\ \A i \in 1..Len(coro.params) :
              coro.params[i].annotation = "Option" =>
                LET opts == made'[1].options
                    k    == ParamName(i)
                IN /\ k \in DictKeys(opts)
                   /\ LET o == opts[DictIndex(opts, k)].v
                      IN /\ o # Prototype
                         /\ heap'[o].required = ~coro.params[i].has_default
                         /\ heap'[o].name =
                              IF heap[Prototype].name = <<>> THEN <<k>>
                              ELSE heap[Prototype].name

C14_OptionClone == [][C14_Step]_vars

-----------------------------------------------------------------------------
(* Command.qualname *)

\* C15: whatever names and parents the nodes have been given, the qualified
\* name of a root is its name and that of any other node is the names of its
\* chain, root first, each joined to the next by one space.
C15_Qualname ==
    \A n \in nodes :
        /\ parent[n] = <<>> => qualname(n) = name[n]
        /\ qualname(n) = PathName(n)

\* a node renamed and moved to the bottom of a chain of three
C15_Witness ==
    \E n \in nodes :
        /\ Depth(n) = 3
        /\ name[n] # NodeName(n)
        /\ parent[n] # ChainParent(n)
        /\ name[parent[n][1]] # NodeName(parent[n][1])

-----------------------------------------------------------------------------
(* Command.invoke: a handler that raises *)

\* invoke ended with an error that no check raised or caused
HandlerRaised ==
    /\ pc = "failed"
    /\ lastRet # <<>>
    /\ lastRet[1] \notin Errors
    /\ ~IsFalse(lastRet[1])

C16_State ==
    HandlerRaised =>
        LET j == Len(invoked)
            chain == ChainOf(leaf[1])
        IN /\ j \in 1..Len(chain)
           /\ \A i \in 1..j : invoked[i].n = chain[i]
           /\ Len(hookRets) = j - 1
           /\ err = <<[type |-> "Exception", msg |-> ""]>>

C16_Step ==
    (pc \in {"hook", "leaf"} /\ pc' = "failed") =>
        /\ invoked' = invoked
        /\ hookRets' = hookRets
        /\ err' = <<[type |-> "Exception", msg |-> ""]>>
        /\ pc = "leaf" => Len(invoked) = Depth(leaf[1])

\* C16: when the handler of the ancestor at depth j raises, the handlers
\* called are those of depths 1..j of the leaf's chain, once each and in that
\* order, those before j completed, nothing is called afterwards, and invoke
\* ends with that error, not a CheckFailure; when the leaf handler raises,
\* every ancestor's handler was called once before it.
C16_HandlerError == []C16_State /\ [][C16_Step]_vars

\* the hook of the ancestor at depth 2 of 3 raised
C16_Witness ==
    /\ HandlerRaised
    /\ Len(invoked) = 2
    /\ Depth(leaf[1]) = 3
    /\ err[1].type = "Exception"

-----------------------------------------------------------------------------
(* Command.invoke while the tree changes *)

\* the ancestors whose handlers were called in this run
InvokedAncestors == {invoked[i].n : i \in 1..Len(invoked)} \ {leaf[1]}

\* the ancestors whose checks were called in this run
CheckedAncestors ==
    {NodesOf(evald)[i].n : i \in 1..Len(NodesOf(evald))} \ {leaf[1]}

\* C17: in a run that reached the leaf handler, the ancestors whose handlers
\* were called are exactly the ancestors whose checks were called, and
\* passed, in that run.
C17_SelfConsistent ==
    pc \in {"leaf", "done"} => InvokedAncestors = CheckedAncestors

====
